---- MODULE Spec2Model ----
(***************************************************************************)
(* The Pjax navigation coordinator of DjinnJS (class Pjax), the loading    *)
(* state machine of Env that it drives, and the message channels that      *)
(* connect it to the Pjax web worker, the service worker, the runtime and  *)
(* the transition manager.  One action per handler of the class.           *)
(*                                                                         *)
(* Spec is a first visit in a browser without navigator.connection, with   *)
(* the service worker disabled.  SpecDoc, SpecBuild, SpecNet, SpecRev and  *)
(* SpecCache add the documents, the builds, the network types, the         *)
(* revision replies and the messages of the service worker; SpecEffect     *)
(* adds the transition names, SpecEnv the startLoading and stopLoading     *)
(* calls of the page, and SpecLoading is Env on its own; FairSpec and      *)
(* LiveSpec add fairness.                                                  *)
(***************************************************************************)
EXTENDS Integers, Sequences, FiniteSets, TLC

\* ------------------------------------------------------------------ bounds

\* Number of navigation requests (uuid() calls of navigate) in one run.
MaxLoads == 2

\* Number of css-ready messages delivered a second time (SpecDup only).
MaxDup == 1

\* Number of messages of the service worker handled in one run.
MaxSwMessages == 3

\* The largest maximum of prompts a cachebust message carries, and the largest
\* value of the prompt counter a page starts with.
MaxPrompts == 2

\* Number of load messages other actors send in one run (SpecEffect only).
MaxBroadcasts == 1

\* Number of startLoading calls in one run.
MaxTickets == 2

\* Number of endPageTransition timers pending at once (SpecLoading only).
MaxTimers == 2

\* Number of console.error calls of stopLoading in one run.
MaxErrors == 1

\* The largest expiry window, in days, a cachebust message carries.
MaxDays == 1

\* Number of half days the clock covers.
MaxTicks == 3

\* ------------------------------------------------------------- value space

\* null of a string-valued field / attribute.
Null == "null"

\* null of Pjax.state.activeRequestUid; request uids are 1, 2, ...
NoUid == 0

\* sessionStorage "maxPrompts" before the first cachebust message; a message
\* carries a maximum of 1 or more.
NoMax == 0

\* A URL is a path and a fragment; hash = "" means the URL holds no "#".
Paths == {"/home", "/about"}
Url(p, h) == [path |-> p, hash |-> h]
NoUrl == Url("", "")
StartUrl == Url("/home", "")

\* new RegExp("#").test(url)
HasHash(u) == u.hash # ""

\* A selector: <<"tag", name>> is `name`, <<"pjax-id", v>> is [pjax-id="v"].
MainSelector == <<"tag", "main">>
PjaxIdSelector(id) == <<"pjax-id", id>>

\* An element that can be swapped: its tag, its pjax-id attribute ("" when it
\* has none) and its inner HTML.
El(t, id, h) == [tag |-> t, pjaxId |-> id, html |-> h]

Matches(el, sel) ==
    IF sel[1] = "tag" THEN el.tag = sel[2] ELSE el.pjaxId = sel[2]

\* Index of the first element matching the selector, 0 for null.
QuerySelector(els, sel) ==
    IF \E i \in 1..Len(els) : Matches(els[i], sel)
    THEN CHOOSE i \in 1..Len(els) :
            /\ Matches(els[i], sel)
            /\ \A j \in 1..(i - 1) : ~Matches(els[j], sel)
    ELSE 0

\* The documents the site serves (response bodies parsed into a document).
PageAbout == [title |-> "About", els |-> <<El("main", "content", "ABOUT"), El("div", "side", "ABOUT-SIDE")>>]
PageBare  == [title |-> "Bare",  els |-> <<El("main", "", "BARE")>>]
Bodies == {PageAbout, PageBare}

\* The document the coordinator starts in.
StartDocument == [title |-> "Home", els |-> <<El("main", "content", "HOME"), El("div", "side", "HOME-SIDE")>>]
\* A document without main element.
StartPlain == [title |-> "Plain", els |-> <<El("div", "side", "PLAIN-SIDE")>>]
StartDocuments == {StartDocument, StartPlain}

\* The statuses of a pjax reply of the worker.
Statuses == {"ok", "external", "hash-change", "error"}

\* The anchors of the document and their attributes.  `place` is the set of
\* ancestors that the prefetch selectors look for (anchor 5 is in a nav inside
\* the header); target = TRUE is a target attribute.
Anchor(hf, tr, view, tgt, attr, cls, pl) ==
    [href |-> hf, transition |-> tr, viewId |-> view, target |-> tgt,
     noPjaxAttr |-> attr, noPjaxClass |-> cls, place |-> pl]
AnchorOf ==
    [a \in 1..7 |->
        CASE a = 1 -> Anchor(Url("/about", ""), "fade", Null, FALSE, FALSE, FALSE, {"header"})
          [] a = 2 -> Anchor(Url("/home", "team"), Null, Null, FALSE, FALSE, FALSE, {"nav"})
          [] a = 3 -> Anchor(Url("/about", ""), Null, "side", FALSE, FALSE, FALSE, {})
          [] a = 4 -> Anchor(Url("/about", ""), Null, Null, TRUE, FALSE, FALSE, {"header"})
          [] a = 5 -> Anchor(Url("/about", ""), Null, Null, FALSE, TRUE, FALSE, {"header", "nav"})
          [] a = 6 -> Anchor(Url("/about", ""), Null, Null, FALSE, FALSE, TRUE, {})
          [] a = 7 -> Anchor(NoUrl, Null, Null, FALSE, FALSE, FALSE, {"nav"})]
Anchors == DOMAIN AnchorOf
\* a[href]
HasHref(a) == AnchorOf[a].href # NoUrl

\* The names a load message asks a transition by: none, the empty string of
\* an empty pjax-transition attribute, the three effects and a name that is no
\* effect.
TransitionNames == {Null, "", "slide", "fade", "none", "zoom"}

\* Configuration imported from ./config.
defaultTransition == "fade"
\* "serviceWorker" in navigator
ServiceWorkerInNavigator == TRUE

\* ------------------------------------------------------------------- state

VARIABLES
    activeRequestUid,        \* Pjax.state.activeRequestUid
    navigationRequestQueue,  \* Pjax.navigationRequestQueue
    uidCounter,              \* number of uuid() values handed to navigate
    workerPjax,              \* pjax messages posted to the worker, not yet answered
    revisionChecks,          \* revision-check messages posted to the worker
    revisionPending,         \* the revision-check messages not yet answered
    primed,                  \* per anchor: times its href was posted for prefetch
    parseOutbox,             \* parse messages sent to the runtime, css-ready not yet back
    mounts,                  \* mount-* messages sent to the runtime
    transitions,             \* transitionManager promises not yet resolved
    inbox,                   \* messages broadcast to "pjax", not yet delivered
    document,                \* document.title and the swappable elements
    history,                 \* window.history: the session history entries
    hIndex,                  \* index of the current session history entry
    hardNav,                 \* the url last assigned to window.location.href
    domState,                \* Env.domState
    tickets,                 \* Env._tickets
    ticketCounter,           \* number of uuid() values handed out by startLoading
    stopped,                 \* the tickets that were passed to stopLoading
    timers,                  \* pending setTimeout callbacks of endPageTransition
    connection,              \* Env.connection
    dataSaver,               \* Env.dataSaver
    tracked,                 \* anchors carrying pjax-tracked
    listeners,               \* per anchor: addEventListener("click", handleLinkClick) calls
    prefetched,              \* anchors carrying pjax-prefetched
    observed,                \* anchors observed by Pjax.io
    consoleErrors,           \* console.error calls
    uncaught,                \* TypeErrors thrown out of a handler
    replied,                 \* per request uid: the branch handlePjaxResponse took
    cssSeen,                 \* request uids whose css-ready was delivered
    dupCount,                \* css-ready messages delivered a second time
    disablePrefetching,      \* config.disablePrefetching
    isDebug,                 \* Env.isDebug, exported as debug
    registration,            \* the promise of navigator.serviceWorker.register
    serviceWorker,           \* Pjax.serviceWorker
    swOutbox,                \* messages posted to the service worker
    swHandled,               \* messages of the service worker handled
    prompts,                 \* sessionStorage "prompts"
    maxPrompts,              \* sessionStorage "maxPrompts"
    contentCache,            \* localStorage "contentCache"
    now                      \* Date.now()

coordVars == <<activeRequestUid, navigationRequestQueue, uidCounter>>
workerVars == <<workerPjax, revisionChecks, revisionPending, primed>>
runtimeVars == <<parseOutbox, mounts>>
browserVars == <<document, history, hIndex, hardNav>>
ticketVars == <<tickets, ticketCounter, stopped>>
envVars == <<domState, ticketVars, timers, connection, dataSaver>>
anchorVars == <<tracked, listeners, prefetched, observed>>
logVars == <<consoleErrors, uncaught, replied>>
dupVars == <<cssSeen, dupCount>>
configVars == <<disablePrefetching, isDebug>>
cacheVars == <<registration, serviceWorker, swOutbox, swHandled, prompts, maxPrompts,
               contentCache, now>>
vars == <<coordVars, workerVars, runtimeVars, transitions, inbox, browserVars,
          envVars, anchorVars, logVars, dupVars, configVars, cacheVars>>

\* location.href
LocationHref == history[hIndex].url

\* A message of the "pjax" inbox; the fields a type does not carry are null.
Msg(t) ==
    [type |-> t, url |-> NoUrl, title |-> Null, history |-> Null,
     transition |-> Null, transitionData |-> Null, target |-> Null]
LoadMsg(u, tr, td, h, tgt) ==
    [Msg("load") EXCEPT !.url = u, !.transition = tr, !.transitionData = td,
                        !.history = h, !.target = tgt]
FinalizeMsg(u, ti, h) ==
    [Msg("finalize-pjax") EXCEPT !.url = u, !.title = ti, !.history = h]

\* Number of load messages waiting in the inbox.
PendingLoads == Cardinality({i \in 1..Len(inbox) : inbox[i].type = "load"})
\* The bound on uuid() calls, counting the loads already broadcast.
LoadBudget == uidCounter + PendingLoads < MaxLoads

\* ------------------------------------------------------------ request queue

\* The NavigaitonRequest object built by navigate; body and title are unset.
NavigationRequest(url, h, uid, tr, td, tgt) ==
    [url |-> url, history |-> h, requestUid |-> uid, transition |-> tr,
     transitionData |-> td, targetSelector |-> tgt, body |-> Null, title |-> Null]

\* Pjax.getNavigaitonRequest: the index of the first queued request with the
\* uid; 0 stands for the null the method returns when there is none.
getNavigaitonRequest(requestId) ==
    IF \E i \in 1..Len(navigationRequestQueue) :
            navigationRequestQueue[i].requestUid = requestId
    THEN CHOOSE i \in 1..Len(navigationRequestQueue) :
            /\ navigationRequestQueue[i].requestUid = requestId
            /\ \A j \in 1..(i - 1) : navigationRequestQueue[j].requestUid # requestId
    ELSE 0

\* Array.splice(i, 1)
Splice(q, i) == SubSeq(q, 1, i - 1) \o SubSeq(q, i + 1, Len(q))

\* removeNavigationRequest with the splice at the end of the queue instead of at
\* the index found.
removeLastRequest(requestId) ==
    IF getNavigaitonRequest(requestId) = 0
    THEN navigationRequestQueue
    ELSE Splice(navigationRequestQueue, Len(navigationRequestQueue))

\* Pjax.removeNavigationRequest: the queue without the first request with the uid.
removeNavigationRequest(requestId) ==
    IF getNavigaitonRequest(requestId) = 0
    THEN navigationRequestQueue
    ELSE Splice(navigationRequestQueue, getNavigaitonRequest(requestId))

\* The comparison of handlePjaxResponse when it accepts every reply.
IsAnyRequest(requestId) == TRUE

\* requestId === this.state.activeRequestUid
IsActiveRequest(requestId) == requestId = activeRequestUid

\* uuid() when it returns the value of the call before once more.
uuidRepeated == IF uidCounter = 0 THEN uidCounter + 1 ELSE uidCounter

\* uuid(): a value no earlier call returned.
uuid == uidCounter + 1

\* ------------------------------------------------------------------- Env

\* Env.startPageTransition
startPageTransition == domState' = "page-loading"

\* Env.endPageTransition: the state is set and the 600 ms timer is started.
endPageTransition ==
    /\ domState' = "page-loading-complete"
    /\ timers' = timers + 1

\* The callback that endPageTransition hands to setTimeout.
EndPageTransitionTimer ==
    /\ timers > 0
    /\ timers' = timers - 1
    /\ domState' = IF Len(tickets) # 0 THEN "soft-loading" ELSE "idling"
    /\ UNCHANGED <<coordVars, workerVars, runtimeVars, transitions, inbox, browserVars,
                   ticketVars, connection, dataSaver, anchorVars, logVars, dupVars,
                   configVars, cacheVars>>

\* A value that is no ticket: undefined, or the empty string.  The tickets
\* startLoading returns are 1, 2, ...
NoTicket == 0

\* Env.startLoading: the ticket is a uuid() value no earlier call returned.
startLoading ==
    /\ domState' = IF domState # "hard-loading" THEN "soft-loading" ELSE domState
    /\ ticketCounter' = ticketCounter + 1
    /\ tickets' = Append(tickets, ticketCounter + 1)

\* Index of the first occurrence of the ticket in Env._tickets, 0 for none.
TicketIndex(ticket) ==
    IF \E i \in 1..Len(tickets) : tickets[i] = ticket
    THEN CHOOSE i \in 1..Len(tickets) :
            /\ tickets[i] = ticket
            /\ \A j \in 1..(i - 1) : tickets[j] # ticket
    ELSE 0

\* Env._tickets after the loop of stopLoading.
WithoutTicket(ticket) ==
    IF TicketIndex(ticket) = 0
    THEN tickets
    ELSE SubSeq(tickets, 1, TicketIndex(ticket) - 1)
            \o SubSeq(tickets, TicketIndex(ticket) + 1, Len(tickets))

\* stopLoading when it sets idling whatever tickets are left.
stopLoadingUnchecked(ticket) ==
    /\ tickets' = WithoutTicket(ticket)
    /\ domState' = IF domState # "hard-loading" THEN "idling" ELSE domState
    /\ consoleErrors' = consoleErrors

\* Env.stopLoading
stopLoading(ticket) ==
    IF ticket = NoTicket /\ isDebug
    THEN \* the ticket is rejected
         /\ consoleErrors' = consoleErrors + 1
         /\ UNCHANGED <<tickets, domState>>
    ELSE /\ tickets' = WithoutTicket(ticket)
         /\ domState' = IF Len(tickets') = 0 /\ domState # "hard-loading"
                        THEN "idling"
                        ELSE domState
         /\ consoleErrors' = consoleErrors

\* A component calls env.startLoading().
StartLoading ==
    /\ ticketCounter < MaxTickets
    /\ startLoading
    /\ UNCHANGED <<coordVars, workerVars, runtimeVars, transitions, inbox, browserVars,
                   stopped, timers, connection, dataSaver, anchorVars, logVars, dupVars,
                   configVars, cacheVars>>

\* A component calls env.stopLoading(ticket), with a ticket it was given or
\* with no ticket at all.
StopLoading(ticket) ==
    /\ ticket \in (1..ticketCounter) \cup {NoTicket}
    /\ (ticket = NoTicket /\ isDebug) => consoleErrors < MaxErrors
    /\ stopLoading(ticket)
    /\ stopped' = IF ticket = NoTicket THEN stopped ELSE stopped \cup {ticket}
    /\ UNCHANGED <<coordVars, workerVars, runtimeVars, transitions, inbox, browserVars,
                   ticketCounter, timers, connection, dataSaver, anchorVars, uncaught,
                   replied, dupVars, configVars, cacheVars>>

\* A caller of env.startPageTransition().
StartPageTransition ==
    /\ startPageTransition
    /\ UNCHANGED <<coordVars, workerVars, runtimeVars, transitions, inbox, browserVars,
                   ticketVars, timers, connection, dataSaver, anchorVars, logVars,
                   dupVars, configVars, cacheVars>>

\* A caller of env.endPageTransition().
EndPageTransition ==
    /\ timers < MaxTimers
    /\ endPageTransition
    /\ UNCHANGED <<coordVars, workerVars, runtimeVars, transitions, inbox, browserVars,
                   ticketVars, connection, dataSaver, anchorVars, logVars,
                   dupVars, configVars, cacheVars>>

\* ------------------------------------------------------------- navigation

\* navigate when it makes a request active only if none is.
navigateKeepActive(url, transition, transitionData, h, targetEl) ==
    /\ uidCounter < MaxLoads
    /\ startPageTransition
    /\ uidCounter' = uidCounter + 1
    /\ activeRequestUid' = IF activeRequestUid = NoUid THEN uuid ELSE activeRequestUid
    /\ navigationRequestQueue' =
            Append(navigationRequestQueue,
                   NavigationRequest(url, h, uuid, transition, transitionData, targetEl))
    /\ workerPjax' = workerPjax \cup
            {[requestId |-> uuid, url |-> url, currentUrl |-> LocationHref]}

\* Pjax.navigate
navigate(url, transition, transitionData, h, targetEl) ==
    /\ uidCounter < MaxLoads
    /\ startPageTransition
    /\ uidCounter' = uidCounter + 1
    /\ activeRequestUid' = uuid
    /\ navigationRequestQueue' =
            Append(navigationRequestQueue,
                   NavigationRequest(url, h, uuid, transition, transitionData, targetEl))
    /\ workerPjax' = workerPjax \cup
            {[requestId |-> uuid, url |-> url, currentUrl |-> LocationHref]}

\* The default value of navigate's history parameter.
HistoryOrDefault(h) == IF h = Null THEN "push" ELSE h

\* Pjax.inbox, case "load"
InboxLoad ==
    /\ inbox # <<>>
    /\ Head(inbox).type = "load"
    /\ navigate(Head(inbox).url, Head(inbox).transition, Head(inbox).transitionData,
                HistoryOrDefault(Head(inbox).history), Head(inbox).target)
    /\ inbox' = Tail(inbox)
    /\ UNCHANGED <<revisionChecks, revisionPending, primed, runtimeVars, transitions, browserVars,
                   ticketVars, timers, connection, dataSaver, anchorVars, logVars, dupVars,
                   configVars, cacheVars>>

\* Pjax.hijackRequest: the click listener of a tracked anchor.
hijackRequest(a) ==
    inbox' = Append(inbox, LoadMsg(AnchorOf[a].href, AnchorOf[a].transition, Null,
                                   Null, AnchorOf[a].viewId))

\* A click on an anchor that carries the click listener.
Click(a) ==
    /\ listeners[a] > 0
    /\ LoadBudget
    /\ hijackRequest(a)
    /\ UNCHANGED <<coordVars, workerVars, runtimeVars, transitions, browserVars,
                   envVars, anchorVars, logVars, dupVars,
                   configVars, cacheVars>>

\* Another actor sends a load message to the pjax inbox through the
\* broadcaster: message("pjax", {type: "load", url, transition}).
BroadcastLoad(url, transition) ==
    /\ uidCounter + PendingLoads < MaxBroadcasts
    /\ inbox' = Append(inbox, LoadMsg(url, transition, Null, Null, Null))
    /\ UNCHANGED <<coordVars, workerVars, runtimeVars, transitions, browserVars,
                   envVars, anchorVars, logVars, dupVars,
                   configVars, cacheVars>>

\* hijackPopstate when it leaves the history mode of the load to its default.
hijackPopstatePush(state) ==
    IF state # NoUrl
    THEN inbox' = Append(inbox, LoadMsg(state, Null, Null, Null, Null))
    ELSE inbox' = inbox

\* Pjax.hijackPopstate, given the state object of the entry traversed to.
hijackPopstate(state) ==
    IF state # NoUrl
    THEN inbox' = Append(inbox, LoadMsg(state, Null, Null, "replace", Null))
    ELSE inbox' = inbox

\* The user goes back or forward to session history entry j: the browser makes
\* it the current entry and fires popstate with the entry's state.
Popstate(j) ==
    /\ j \in 1..Len(history)
    /\ j # hIndex
    /\ history[j].state # NoUrl => LoadBudget
    /\ hIndex' = j
    /\ hijackPopstate(history[j].state)
    /\ UNCHANGED <<coordVars, workerVars, runtimeVars, transitions, document, history,
                   hardNav, envVars, anchorVars, logVars, dupVars,
                   configVars, cacheVars>>

\* ---------------------------------------------------------------- browser

\* window.history.pushState: the entries after the current one are dropped and
\* the new entry becomes the current one.
pushState(url) ==
    /\ history' = Append(SubSeq(history, 1, hIndex), [url |-> url, state |-> url])
    /\ hIndex' = hIndex + 1

\* window.history.replaceState: the current entry is overwritten.
replaceState(url) ==
    /\ history' = [history EXCEPT ![hIndex] = [url |-> url, state |-> url]]
    /\ hIndex' = hIndex

\* updateHistory when it pushes whatever the history mode is.
updateHistoryPushOnly(title, url, h) == pushState(url)

\* Pjax.updateHistory
updateHistory(title, url, h) ==
    IF h = "replace" THEN replaceState(url) ELSE pushState(url)

\* What handlePjaxResponse can change, as it is before the call.
ResponseFrame ==
    [queue |-> navigationRequestQueue, parse |-> parseOutbox, history |-> history,
     hIndex |-> hIndex, hardNav |-> hardNav, consoleErrors |-> consoleErrors,
     uncaught |-> uncaught, replied |-> replied]

\* location.hash = fragment: a fragment that differs from the current one is a
\* fragment navigation, which adds a session history entry without state.
AssignLocationHash(f, fragment) ==
    IF fragment = f.history[f.hIndex].url.hash
    THEN f
    ELSE [f EXCEPT !.history = Append(SubSeq(f.history, 1, f.hIndex),
                                      [url |-> Url(f.history[f.hIndex].url.path, fragment),
                                       state |-> NoUrl]),
                   !.hIndex = f.hIndex + 1]

\* ------------------------------------------------------ response handling

\* The selector handlePjaxResponse looks the current view up with.
CurrentSelector(request) ==
    IF request.targetSelector # Null
    THEN PjaxIdSelector(request.targetSelector)
    ELSE MainSelector

\* The selector handlePjaxResponse looks the incoming view up with: main is
\* replaced by the pjax-id of the current main element when it has one.
IncomingSelector(request) ==
    IF request.targetSelector # Null
    THEN PjaxIdSelector(request.targetSelector)
    ELSE IF document.els[QuerySelector(document.els, MainSelector)].pjaxId # ""
         THEN PjaxIdSelector(document.els[QuerySelector(document.els, MainSelector)].pjaxId)
         ELSE MainSelector

\* handlePjaxResponse, status "ok" of the active request.
HandleOk(f, i, requestId, url, body) ==
    IF i = 0
    THEN \* request.targetSelector of null
         [f EXCEPT !.uncaught = @ + 1]
    ELSE LET request == f.queue[i]
             currentMain == QuerySelector(document.els, CurrentSelector(request))
         IN  IF request.targetSelector = Null /\ currentMain = 0
             THEN \* currentMain.getAttribute of null
                  [f EXCEPT !.uncaught = @ + 1]
             ELSE LET incomingMain == QuerySelector(body.els, IncomingSelector(request))
                  IN  IF incomingMain # 0 /\ currentMain # 0
                      THEN [f EXCEPT
                              !.parse = @ \cup {[requestUid |-> requestId,
                                                 body |-> body.els[incomingMain].html]},
                              !.queue[i].body = body.els[incomingMain].html,
                              !.queue[i].title = body.title]
                      ELSE [f EXCEPT !.consoleErrors = @ + 1, !.hardNav = url]

\* handlePjaxResponse, status "external": window.location.href = url
HandleExternal(f, url) == [f EXCEPT !.hardNav = url]

\* The hash-change branch when it also sends the fragment's url to be parsed.
HandleHashChangeParsed(f, requestId, url) ==
    [AssignLocationHash(f, url.hash) EXCEPT
        !.parse = @ \cup {[requestUid |-> requestId, body |-> ""]}]

\* handlePjaxResponse, status "hash-change": location.hash = the fragment of url
HandleHashChange(f, requestId, url) == AssignLocationHash(f, url.hash)

\* The failure branch when it logs and stays on the page.
HandleFailureLogged(f, url) == [f EXCEPT !.consoleErrors = @ + 1]

\* handlePjaxResponse, any other status: the failure is logged and the browser
\* navigates to the url.
HandleFailure(f, url) == [f EXCEPT !.consoleErrors = @ + 1, !.hardNav = url]

\* handlePjaxResponse, the request is the active one.
HandleActive(f, i, requestId, status, url, body) ==
    CASE status = "external" -> HandleExternal(f, url)
      [] status = "hash-change" -> HandleHashChange(f, requestId, url)
      [] status = "ok" -> HandleOk(f, i, requestId, url, body)
      [] OTHER -> HandleFailure(f, url)

\* handlePjaxResponse, the request is not the active one.
HandleStale(f, i, requestId, status) ==
    IF i = 0
    THEN \* request.requestUid of null
         [f EXCEPT !.uncaught = @ + 1]
    ELSE [f EXCEPT !.queue = removeNavigationRequest(f.queue[i].requestUid),
                   !.consoleErrors = IF status # "ok" THEN @ + 1 ELSE @]

\* Pjax.handlePjaxResponse: what ResponseFrame is after the call.
handlePjaxResponse(requestId, status, url, body) ==
    IF IsActiveRequest(requestId)
    THEN HandleActive([ResponseFrame EXCEPT !.replied[requestId] = status],
                      getNavigaitonRequest(requestId), requestId, status, url, body)
    ELSE HandleStale([ResponseFrame EXCEPT !.replied[requestId] = "stale"],
                     getNavigaitonRequest(requestId), requestId, status)

\* The body of a reply whose status is not ok.
NoBody == [title |-> Null, els |-> <<>>]

\* Pjax.handleWorkerMessage, case "pjax": the worker answers the pjax message m.
\* It reports hash-change only for a url that holds a fragment.
HandleWorkerPjax(m, status, body) ==
    /\ m \in workerPjax
    /\ status = "hash-change" => HasHash(m.url)
    /\ workerPjax' = workerPjax \ {m}
    /\ LET f == handlePjaxResponse(m.requestId, status, m.url, body)
       IN  /\ navigationRequestQueue' = f.queue
           /\ parseOutbox' = f.parse
           /\ history' = f.history
           /\ hIndex' = f.hIndex
           /\ hardNav' = f.hardNav
           /\ consoleErrors' = f.consoleErrors
           /\ uncaught' = f.uncaught
           /\ replied' = f.replied
    /\ UNCHANGED <<activeRequestUid, uidCounter, revisionChecks, revisionPending, primed, mounts,
                   transitions, inbox, document, envVars, anchorVars, dupVars,
                   configVars, cacheVars>>

\* ------------------------------------------------------------ content swap

\* transition || defaultTransition: null and the empty string are falsy.
OrDefault(transition) ==
    IF transition = Null \/ transition = "" THEN defaultTransition ELSE transition

\* transitionManager when it does not look at the connection.
TransitionEffectRequested(transition) ==
    IF OrDefault(transition) \in {"slide", "fade", "none"}
    THEN OrDefault(transition)
    ELSE "none"

\* transitionManager: the effect that runs.
TransitionEffect(transition) ==
    IF connection = "2g" \/ connection = "slow-2g"
    THEN "none"
    ELSE LET transitionEffect == OrDefault(transition)
         IN  IF transitionEffect \in {"slide", "fade", "none"}
             THEN transitionEffect
             ELSE "none"

\* transitionManager, default case: if (debug) console.error(...)
TransitionLogged(transition) ==
    /\ isDebug
    /\ connection # "2g" /\ connection # "slow-2g"
    /\ OrDefault(transition) \notin {"slide", "fade", "none"}

\* The selector swapPjaxContent hands to transitionManager.
SwapSelector(request) ==
    IF request.targetSelector # Null
    THEN PjaxIdSelector(request.targetSelector)
    ELSE MainSelector

\* The comparison of swapPjaxContent when it lets every request through.
SwapAlways(request) == TRUE

\* request.requestUid === this.state.activeRequestUid in swapPjaxContent
SwapIsActive(request) == request.requestUid = activeRequestUid

\* The promise transitionManager returns for the request, with what its then
\* callback closes over.
Transition(request) ==
    [request |-> request, selector |-> SwapSelector(request),
     effect |-> TransitionEffect(request.transition)]

\* Pjax.swapPjaxContent
swapPjaxContent(requestUid) ==
    LET i == getNavigaitonRequest(requestUid) IN
    IF i = 0
    THEN \* request.requestUid of null
         /\ uncaught' = uncaught + 1
         /\ UNCHANGED <<navigationRequestQueue, domState, timers, transitions,
                        consoleErrors>>
    ELSE /\ IF SwapIsActive(navigationRequestQueue[i])
            THEN /\ endPageTransition
                 /\ transitions' = transitions \cup {Transition(navigationRequestQueue[i])}
                 /\ consoleErrors' =
                        IF TransitionLogged(navigationRequestQueue[i].transition)
                        THEN consoleErrors + 1
                        ELSE consoleErrors
            ELSE UNCHANGED <<domState, timers, transitions, consoleErrors>>
         /\ navigationRequestQueue' =
                removeNavigationRequest(navigationRequestQueue[i].requestUid)
         /\ uncaught' = uncaught

\* Pjax.inbox, case "css-ready": the runtime answers the parse message p.
InboxCssReady(p) ==
    /\ p \in parseOutbox
    /\ parseOutbox' = parseOutbox \ {p}
    /\ cssSeen' = cssSeen \cup {p.requestUid}
    /\ swapPjaxContent(p.requestUid)
    /\ UNCHANGED <<activeRequestUid, uidCounter, workerVars, mounts, inbox, browserVars,
                   ticketVars, connection, dataSaver, anchorVars, replied,
                   dupCount, configVars, cacheVars>>

\* A css-ready message that arrives a second time for the same request.
InboxCssReadyAgain(requestUid) ==
    /\ requestUid \in cssSeen
    /\ dupCount < MaxDup
    /\ dupCount' = dupCount + 1
    /\ swapPjaxContent(requestUid)
    /\ UNCHANGED <<activeRequestUid, uidCounter, workerVars, runtimeVars, inbox,
                   browserVars, ticketVars, connection, dataSaver, anchorVars,
                   replied, cssSeen, configVars, cacheVars>>

\* The transition effects: the inner HTML of the view the selector finds
\* becomes the new HTML.
SwapView(els, selector, newHTML) ==
    IF QuerySelector(els, selector) = 0
    THEN els
    ELSE [els EXCEPT ![QuerySelector(els, selector)].html = newHTML]

MountComponents == [type |-> "mount-components", selector |-> <<"", "">>]
MountInlineScripts(selector) == [type |-> "mount-inline-scripts", selector |-> selector]

\* The messages the then callback of swapPjaxContent broadcasts to the runtime.
MountMessages(t) == <<MountComponents, MountInlineScripts(t.selector)>>

\* The finalize-pjax message when it carries the url of the page being left.
FinalizeOfLocation(t) == FinalizeMsg(LocationHref, t.request.title, t.request.history)

\* The finalize-pjax message the then callback of swapPjaxContent broadcasts.
FinalizeOf(t) == FinalizeMsg(t.request.url, t.request.title, t.request.history)

\* The transition t resolves and the then callback of swapPjaxContent runs.
TransitionResolve(t) ==
    /\ t \in transitions
    /\ transitions' = transitions \ {t}
    /\ document' = [title |-> t.request.title,
                    els |-> SwapView(document.els, t.selector, t.request.body)]
    /\ inbox' = Append(inbox, FinalizeOf(t))
    /\ mounts' = mounts \o MountMessages(t)
    /\ UNCHANGED <<coordVars, workerVars, parseOutbox, history, hIndex, hardNav,
                   envVars, anchorVars, logVars, dupVars,
                   configVars, cacheVars>>

\* ------------------------------------------------------------------ links

\* The selector of collectLinks without :not([pjax-tracked]).
UnregisteredLinkUnmarked(a) ==
    /\ HasHref(a)
    /\ ~AnchorOf[a].noPjaxAttr
    /\ ~AnchorOf[a].target
    /\ ~AnchorOf[a].noPjaxClass

\* a[href]:not([pjax-tracked]):not([no-pjax]):not([target]):not(.no-pjax)
UnregisteredLink(a) ==
    /\ HasHref(a)
    /\ a \notin tracked
    /\ ~AnchorOf[a].noPjaxAttr
    /\ ~AnchorOf[a].target
    /\ ~AnchorOf[a].noPjaxClass

\* Pjax.collectLinks
collectLinks ==
    /\ tracked' = tracked \cup {a \in Anchors : UnregisteredLink(a)}
    /\ listeners' = [a \in Anchors |->
                        IF UnregisteredLink(a) THEN listeners[a] + 1 ELSE listeners[a]]

\* checkPageRevision when it posts nothing.
checkPageRevisionSkipped == UNCHANGED <<revisionChecks, revisionPending>>

\* Pjax.checkPageRevision: the message carries window.location.href as it is
\* when the method runs.
checkPageRevision ==
    /\ revisionChecks' = revisionChecks + 1
    /\ revisionPending' = revisionPending \cup
            {[n |-> revisionChecks + 1, url |-> history'[hIndex'].url]}

\* The selectors of prefetchLinks without :not([pjax-prefetched]).
PrefetchLinkUnmarked(a, place, marked) ==
    /\ HasHref(a)
    /\ ~AnchorOf[a].target
    /\ place # "body" => place \in AnchorOf[a].place

\* a[href]:not([target]):not([pjax-prefetched]) below the element `place`; the
\* two :not() of element names prevent-pjax and no-transition exclude no anchor.
PrefetchLink(a, place, marked) ==
    /\ HasHref(a)
    /\ ~AnchorOf[a].target
    /\ a \notin marked
    /\ place # "body" => place \in AnchorOf[a].place

\* The first return of prefetchLinks.
PrefetchSuppressed ==
    connection = "2g" \/ connection = "slow-2g" \/ ~ServiceWorkerInNavigator \/ dataSaver

\* The second return of prefetchLinks when it is never taken.
ObservationNeverSuppressed == FALSE

\* The second return of prefetchLinks: env.connection === "3g"
ObservationSuppressed == connection = "3g"

\* Pjax.prefetchLinks: the urls of the header links and of the nav links are
\* pushed and posted to the worker, the other links are observed.
prefetchLinks ==
    IF PrefetchSuppressed
    THEN UNCHANGED <<primed, prefetched, observed>>
    ELSE LET headerLinks == {a \in Anchors : PrefetchLink(a, "header", prefetched)}
             navLinks == {a \in Anchors : PrefetchLink(a, "nav", prefetched \cup headerLinks)}
             allLinks == IF ObservationSuppressed
                         THEN {}
                         ELSE {a \in Anchors :
                                 PrefetchLink(a, "body", prefetched \cup headerLinks \cup navLinks)}
         IN  /\ primed' = [a \in Anchors |->
                             primed[a] + (IF a \in headerLinks THEN 1 ELSE 0)
                                       + (IF a \in navLinks THEN 1 ELSE 0)]
             /\ prefetched' = prefetched \cup headerLinks \cup navLinks \cup allLinks
             /\ observed' = observed \cup allLinks

\* Pjax.prefetchLink: the callback of the IntersectionObserver, given the
\* anchors of its entries and those whose entry has isIntersecting set.
prefetchLink(entries, intersecting) ==
    /\ observed' = observed \ intersecting
    /\ primed' = [a \in Anchors |->
                    IF a \in intersecting THEN primed[a] + 1 ELSE primed[a]]

\* Pjax.handleIntersection: the observer reports on anchors it observes.
HandleIntersection(entries, intersecting) ==
    /\ entries # {}
    /\ entries \subseteq observed
    /\ intersecting # {}
    /\ intersecting \subseteq entries
    /\ prefetchLink(entries, intersecting)
    /\ UNCHANGED <<coordVars, workerPjax, revisionChecks, revisionPending, runtimeVars,
                   transitions, inbox, browserVars, envVars, tracked, listeners,
                   prefetched, logVars, dupVars, configVars, cacheVars>>

\* Pjax.inbox, case "finalize-pjax"
InboxFinalizePjax ==
    /\ inbox # <<>>
    /\ Head(inbox).type = "finalize-pjax"
    /\ updateHistory(Head(inbox).title, Head(inbox).url, Head(inbox).history)
    /\ collectLinks
    /\ checkPageRevision
    /\ IF ~disablePrefetching
       THEN prefetchLinks
       ELSE UNCHANGED <<primed, prefetched, observed>>
    /\ inbox' = Append(Tail(inbox), Msg("completed"))
    /\ UNCHANGED <<coordVars, workerPjax, runtimeVars, transitions, document, hardNav,
                   envVars, logVars, dupVars,
                   configVars, cacheVars>>

\* Pjax.inbox, case "hijack-links"
InboxHijackLinks ==
    /\ inbox # <<>>
    /\ Head(inbox).type = "hijack-links"
    /\ collectLinks
    /\ inbox' = Tail(inbox)
    /\ UNCHANGED <<coordVars, workerVars, runtimeVars, transitions, browserVars,
                   envVars, prefetched, observed, logVars, dupVars,
                   configVars, cacheVars>>

\* Pjax.inbox, case "prefetch"
InboxPrefetch ==
    /\ inbox # <<>>
    /\ Head(inbox).type = "prefetch"
    /\ IF ~disablePrefetching
       THEN prefetchLinks
       ELSE UNCHANGED <<primed, prefetched, observed>>
    /\ inbox' = Tail(inbox)
    /\ UNCHANGED <<coordVars, workerPjax, revisionChecks, revisionPending, runtimeVars, transitions,
                   browserVars, envVars, tracked, listeners, logVars, dupVars,
                   configVars, cacheVars>>

\* Pjax.inbox, case "init"
InboxInit ==
    /\ inbox # <<>>
    /\ Head(inbox).type = "init"
    /\ inbox' = Tail(inbox) \o <<Msg("hijack-links"), Msg("prefetch")>>
    /\ UNCHANGED <<coordVars, workerVars, runtimeVars, transitions, browserVars,
                   envVars, anchorVars, logVars, dupVars,
                   configVars, cacheVars>>

\* Pjax.inbox, default case: a message type the switch does not name.
InboxDefault ==
    /\ inbox # <<>>
    /\ Head(inbox).type \notin {"revision-check", "hijack-links", "load", "finalize-pjax",
                               "css-ready", "prefetch", "init"}
    /\ inbox' = Tail(inbox)
    /\ UNCHANGED <<coordVars, workerVars, runtimeVars, transitions, browserVars,
                   envVars, anchorVars, logVars, dupVars,
                   configVars, cacheVars>>

\* ---------------------------------------------------------- service worker

\* A message posted to the service worker.
SwMsg(t, u, net) == [type |-> t, url |-> u, network |-> net]
CacheBustRequest == SwMsg("cachebust", LocationHref, Null)
ClearContentCache == SwMsg("clear-content-cache", NoUrl, Null)
PageRefresh(u) == SwMsg("page-refresh", u, connection)

\* Pjax.init: the promise of navigator.serviceWorker.register settles.  The
\* outcome is "controlled" when navigator.serviceWorker.controller is set,
\* "uncontrolled" when it is null and "rejected" when the promise rejects.
RegisterSettle(outcome) ==
    /\ registration = "pending"
    /\ registration' = "settled"
    /\ IF outcome = "controlled"
       THEN /\ serviceWorker' = "controller"
            /\ swOutbox' = Append(swOutbox, CacheBustRequest)
            /\ inbox' = Append(inbox, Msg("revision-check"))
       ELSE UNCHANGED <<serviceWorker, swOutbox, inbox>>
    /\ UNCHANGED <<coordVars, workerVars, runtimeVars, transitions, browserVars,
                   envVars, anchorVars, logVars, dupVars, configVars,
                   swHandled, prompts, maxPrompts, contentCache, now>>

\* Pjax.inbox, case "revision-check"
InboxRevisionCheck ==
    /\ inbox # <<>>
    /\ Head(inbox).type = "revision-check"
    /\ inbox' = Tail(inbox)
    /\ UNCHANGED browserVars
    /\ checkPageRevision
    /\ UNCHANGED <<coordVars, workerPjax, primed, runtimeVars, transitions,
                   envVars, anchorVars, logVars, dupVars, configVars, cacheVars>>

\* this.serviceWorker.postMessage({type: "page-refresh", ...}): postMessage of
\* null throws a TypeError.
PostPageRefresh(url) ==
    IF serviceWorker = Null
    THEN /\ uncaught' = uncaught + 1
         /\ swOutbox' = swOutbox
    ELSE /\ swOutbox' = Append(swOutbox, PageRefresh(url))
         /\ uncaught' = uncaught

\* Pjax.handleWorkerMessage, case "revision-check": the worker answers the
\* revision-check message r with status stale or fresh.
HandleWorkerRevision(r, status) ==
    /\ r \in revisionPending
    /\ revisionPending' = revisionPending \ {r}
    /\ IF status = "stale"
       THEN PostPageRefresh(r.url)
       ELSE UNCHANGED <<swOutbox, uncaught>>
    /\ UNCHANGED <<coordVars, workerPjax, revisionChecks, primed, runtimeVars,
                   transitions, inbox, browserVars, envVars, anchorVars,
                   consoleErrors, replied, dupVars, configVars, registration,
                   serviceWorker, swHandled, prompts, maxPrompts, contentCache, now>>

\* contentCacheExpires * 24 * 60 * 60 * 1000
DayMs == 24 * 60 * 60 * 1000
neededDifference(contentCacheExpires) == contentCacheExpires * DayMs

\* The step of the clock: half a day.
HalfDay == DayMs \div 2
Clock == {k * HalfDay : k \in 0..MaxTicks}

\* Time passes.
Tick ==
    /\ now + HalfDay \in Clock
    /\ now' = now + HalfDay
    /\ UNCHANGED <<coordVars, workerVars, runtimeVars, transitions, inbox, browserVars,
                   envVars, anchorVars, logVars, dupVars, configVars, registration,
                   serviceWorker, swOutbox, swHandled, prompts, maxPrompts, contentCache>>

\* navigator.serviceWorker.onmessage is set once the controller is stored.
ServiceWorkerListens == serviceWorker # Null /\ swHandled < MaxSwMessages

\* Pjax.handleServiceWorkerMessage, case "page-refresh": the counter is parsed,
\* incremented and stored again; the notification is shown.
HandlePageRefresh ==
    /\ ServiceWorkerListens
    /\ swHandled' = swHandled + 1
    /\ prompts' = prompts + 1
    /\ UNCHANGED <<coordVars, workerVars, runtimeVars, transitions, inbox, browserVars,
                   envVars, anchorVars, logVars, dupVars, configVars, registration,
                   serviceWorker, swOutbox, maxPrompts, contentCache, now>>

\* The comparison of the cachebust case when the window has to be exceeded.
ExpiredStrictly(difference, needed) == difference > needed

\* difference >= neededDifference
Expired(difference, needed) == difference >= needed

\* The comparison of the cachebust case when the maximum has to be exceeded.
PromptsExceeded(count, max) == count > max

\* parseInt(currentPromptCount) >= e.data.max
PromptsReached(count, max) == count >= max

\* Pjax.handleServiceWorkerMessage, case "cachebust"
HandleCachebust(max, contentCacheExpires) ==
    /\ ServiceWorkerListens
    /\ swHandled' = swHandled + 1
    /\ maxPrompts' = max
    /\ LET reset == PromptsReached(prompts, max)
           purge == Expired(now - contentCache, neededDifference(contentCacheExpires))
       IN  /\ prompts' = IF reset THEN 0 ELSE prompts
           /\ contentCache' = IF purge THEN now ELSE contentCache
           /\ swOutbox' = swOutbox
                    \o (IF reset THEN <<ClearContentCache>> ELSE <<>>)
                    \o (IF purge THEN <<ClearContentCache>> ELSE <<>>)
    /\ UNCHANGED <<coordVars, workerVars, runtimeVars, transitions, inbox, browserVars,
                   envVars, anchorVars, logVars, dupVars, configVars, registration,
                   serviceWorker, now>>

\* Pjax.handleServiceWorkerMessage, default case
HandleServiceWorkerDefault ==
    /\ ServiceWorkerListens
    /\ swHandled' = swHandled + 1
    /\ UNCHANGED <<coordVars, workerVars, runtimeVars, transitions, inbox, browserVars,
                   envVars, anchorVars, logVars, dupVars, configVars, registration,
                   serviceWorker, swOutbox, prompts, maxPrompts, contentCache, now>>

\* ------------------------------------------------------------------ network

NetworkTypes == {"4g", "3g", "2g", "slow-2g"}

\* Env.handleNetworkChange
handleNetworkChange(effectiveType) ==
    /\ effectiveType # connection
    /\ connection' = effectiveType
    /\ UNCHANGED <<coordVars, workerVars, runtimeVars, transitions, inbox, browserVars,
                   domState, ticketVars, timers, dataSaver, anchorVars, logVars, dupVars,
                   configVars, cacheVars>>

\* ------------------------------------------------------------ specification

\* The state after new Pjax(): the constructor and init have run, the history
\* entry of the page holds its url, and the runtime's init message is on its way.
InitPjax ==
    /\ activeRequestUid = NoUid
    /\ navigationRequestQueue = <<>>
    /\ uidCounter = 0
    /\ workerPjax = {}
    /\ revisionChecks = 0
    /\ revisionPending = {}
    /\ primed = [a \in Anchors |-> 0]
    /\ parseOutbox = {}
    /\ mounts = <<>>
    /\ transitions = {}
    /\ inbox = <<Msg("init")>>
    /\ history = <<[url |-> StartUrl, state |-> StartUrl]>>
    /\ hIndex = 1
    /\ hardNav = NoUrl
    /\ domState = "hard-loading"
    /\ tickets = <<>>
    /\ ticketCounter = 0
    /\ stopped = {}
    /\ timers = 0
    /\ tracked = {}
    /\ listeners = [a \in Anchors |-> 0]
    /\ prefetched = {}
    /\ observed = {}
    /\ consoleErrors = 0
    /\ uncaught = 0
    /\ replied = [u \in 1..MaxLoads |-> Null]
    /\ cssSeen = {}
    /\ dupCount = 0
    /\ serviceWorker = Null
    /\ swOutbox = <<>>
    /\ swHandled = 0

\* The document is one with a main element.
InitDocument == document = StartDocument

\* The browser has no navigator.connection: Env keeps "4g" and no data saver.
InitNoConnection == connection = "4g" /\ dataSaver = FALSE

\* The build enables prefetching.
InitPrefetching == disablePrefetching = FALSE

\* A production build: Env.isDebug is false.
InitProduction == isDebug = FALSE

\* The build disables the service worker: nothing is registered.
InitNoServiceWorker == registration = "none"

\* The storage of a first visit: init writes "0" and Date.now().
InitFirstVisit ==
    /\ now = 0
    /\ prompts = 0
    /\ maxPrompts = NoMax
    /\ contentCache = now

\* A first visit with a browser that has no navigator.connection, a build with
\* prefetching and without service worker, to a document with a main element.
Init ==
    /\ InitPjax
    /\ InitDocument
    /\ InitNoConnection
    /\ InitPrefetching
    /\ InitProduction
    /\ InitNoServiceWorker
    /\ InitFirstVisit

WorkerReply ==
    \E m \in workerPjax, status \in Statuses :
        \E body \in IF status = "ok" THEN Bodies ELSE {NoBody} :
            HandleWorkerPjax(m, status, body)

Next ==
    \/ InboxInit
    \/ InboxHijackLinks
    \/ InboxPrefetch
    \/ InboxLoad
    \/ InboxFinalizePjax
    \/ InboxDefault
    \/ \E a \in Anchors : Click(a)
    \/ \E j \in 1..Len(history) : Popstate(j)
    \/ WorkerReply
    \/ \E p \in parseOutbox : InboxCssReady(p)
    \/ \E t \in transitions : TransitionResolve(t)
    \/ EndPageTransitionTimer

Spec == Init /\ [][Next]_vars

\* The same system when the runtime may deliver a css-ready message twice.
NextDup ==
    \/ Next
    \/ \E u \in cssSeen : InboxCssReadyAgain(u)

SpecDup == Init /\ [][NextDup]_vars

\* Pjax.inbox: the broadcaster hands the oldest waiting message to the inbox.
InboxDeliver ==
    \/ InboxInit
    \/ InboxHijackLinks
    \/ InboxPrefetch
    \/ InboxLoad
    \/ InboxFinalizePjax
    \/ InboxDefault

\* The broadcaster delivers every message it was given and a transition that
\* was started resolves.
FairSpec ==
    /\ Spec
    /\ WF_vars(InboxDeliver)
    /\ WF_vars(\E t \in transitions : TransitionResolve(t))

\* The broadcaster delivers every message, the worker answers every pjax
\* message, the runtime answers every parse message, every transition resolves
\* and every timer fires.
LiveSpec ==
    /\ Spec
    /\ WF_vars(InboxDeliver)
    /\ WF_vars(WorkerReply)
    /\ WF_vars(\E p \in parseOutbox : InboxCssReady(p))
    /\ WF_vars(\E t \in transitions : TransitionResolve(t))
    /\ WF_vars(EndPageTransitionTimer)

\* The same system started in any of the documents: StartPlain has no main
\* element, only the view "side".
InitDoc ==
    /\ InitPjax
    /\ document \in StartDocuments
    /\ InitNoConnection
    /\ InitPrefetching
    /\ InitProduction
    /\ InitNoServiceWorker
    /\ InitFirstVisit

SpecDoc == InitDoc /\ [][Next]_vars

\* The same system for builds with and without prefetching.
InitBuild ==
    /\ InitPjax
    /\ InitDocument
    /\ InitNoConnection
    /\ disablePrefetching \in BOOLEAN
    /\ InitProduction
    /\ InitNoServiceWorker
    /\ InitFirstVisit

SpecBuild == InitBuild /\ [][Next]_vars

\* The same system in a browser with navigator.connection, which reports any
\* network type and data saver setting and every change of the type, with the
\* observed anchors scrolling into view.
InitNet ==
    /\ InitPjax
    /\ InitDocument
    /\ connection \in NetworkTypes
    /\ dataSaver \in BOOLEAN
    /\ InitPrefetching
    /\ InitProduction
    /\ InitNoServiceWorker
    /\ InitFirstVisit

NextNet ==
    \/ Next
    \/ \E entries \in SUBSET observed :
            \E intersecting \in SUBSET entries : HandleIntersection(entries, intersecting)
    \/ \E effectiveType \in NetworkTypes : handleNetworkChange(effectiveType)

SpecNet == InitNet /\ [][NextNet]_vars

\* The same system with the revision checks answered, for builds with and
\* without service worker.
InitRev ==
    /\ InitPjax
    /\ InitDocument
    /\ InitNoConnection
    /\ InitPrefetching
    /\ InitProduction
    /\ registration \in {"none", "pending"}
    /\ InitFirstVisit

WorkerRevisionReply ==
    \E r \in revisionPending, status \in {"stale", "fresh"} : HandleWorkerRevision(r, status)

NextRev ==
    \/ Next
    \/ \E outcome \in {"controlled", "uncontrolled", "rejected"} : RegisterSettle(outcome)
    \/ InboxRevisionCheck
    \/ WorkerRevisionReply

SpecRev == InitRev /\ [][NextRev]_vars

\* The storage a page can start with: the counter and the timestamp of an
\* earlier page of the session, at any time of the clock.
InitStorage ==
    /\ now \in Clock
    /\ prompts \in 0..MaxPrompts
    /\ maxPrompts = NoMax
    /\ contentCache \in {t \in Clock : t <= now}

\* The cache control of a page with a service worker: the registration
\* settles, the coordinator starts up, time passes and the service worker
\* sends its messages.
InitCache ==
    /\ InitPjax
    /\ InitDocument
    /\ InitNoConnection
    /\ InitPrefetching
    /\ InitProduction
    /\ registration = "pending"
    /\ InitStorage

ServiceWorkerMessage ==
    \/ HandlePageRefresh
    \/ \E max \in 1..MaxPrompts, contentCacheExpires \in 0..MaxDays :
            HandleCachebust(max, contentCacheExpires)
    \/ HandleServiceWorkerDefault

NextCache ==
    \/ \E outcome \in {"controlled", "uncontrolled", "rejected"} : RegisterSettle(outcome)
    \/ ServiceWorkerMessage
    \/ Tick
    \/ InboxInit
    \/ InboxHijackLinks
    \/ InboxPrefetch
    \/ InboxRevisionCheck

SpecCache == InitCache /\ [][NextCache]_vars

\* A build without prefetching, in production or in debug, in a browser that
\* reports any network type and every change of it; the loads are sent by
\* actors that ask for any transition.
InitEffect ==
    /\ InitPjax
    /\ InitDocument
    /\ connection \in NetworkTypes
    /\ dataSaver = FALSE
    /\ disablePrefetching = TRUE
    /\ isDebug \in BOOLEAN
    /\ InitNoServiceWorker
    /\ InitFirstVisit

NextEffect ==
    \/ InboxInit
    \/ InboxHijackLinks
    \/ InboxPrefetch
    \/ InboxLoad
    \/ InboxFinalizePjax
    \/ InboxDefault
    \/ \E transition \in TransitionNames : BroadcastLoad(Url("/about", ""), transition)
    \/ WorkerReply
    \/ \E p \in parseOutbox : InboxCssReady(p)
    \/ \E t \in transitions : TransitionResolve(t)
    \/ EndPageTransitionTimer
    \/ \E effectiveType \in NetworkTypes : handleNetworkChange(effectiveType)

SpecEffect == InitEffect /\ [][NextEffect]_vars

\* Env on its own, in production and in debug builds: its four methods are
\* called in any order and the timers of endPageTransition fire.
InitLoading ==
    /\ InitPjax
    /\ InitDocument
    /\ InitNoConnection
    /\ InitPrefetching
    /\ isDebug \in BOOLEAN
    /\ InitNoServiceWorker
    /\ InitFirstVisit

NextLoading ==
    \/ StartLoading
    \/ \E ticket \in 0..MaxTickets : StopLoading(ticket)
    \/ StartPageTransition
    \/ EndPageTransition
    \/ EndPageTransitionTimer

SpecLoading == InitLoading /\ [][NextLoading]_vars

\* The navigation of Spec with the components of the page calling
\* startLoading and stopLoading in between.
NextEnv ==
    \/ Next
    \/ StartLoading
    \/ \E ticket \in 0..MaxTickets : StopLoading(ticket)

SpecEnv == Init /\ [][NextEnv]_vars

\* ----------------------------------------------------------------- claims

Queued(u) == \E i \in 1..Len(navigationRequestQueue) : navigationRequestQueue[i].requestUid = u
Pending(u) == \E m \in workerPjax : m.requestId = u
ParseSent(u) == \E p \in parseOutbox : p.requestUid = u
Running(u) == \E t \in transitions : t.request.requestUid = u
WithoutRequest(q, u) == SelectSeq(q, LAMBDA r : r.requestUid # u)
\* The queue entry of request u.
Entry(u) == navigationRequestQueue[getNavigaitonRequest(u)]
\* Request u left the queue at a reply that found it superseded.
DiscardedAsStale(u) == u <= uidCounter /\ ~Queued(u) /\ ~Pending(u) /\ u \notin cssSeen

\* C1: a reply of the worker sends a parse message only when its request id is
\* the active id at the moment it is handled, and only parse messages so sent
\* lead to a transition; a reply for any other id removes that request from the
\* queue and changes nothing else but the error log.
C1_Reply ==
    \A m \in workerPjax : m \notin workerPjax' =>
        /\ \A p \in parseOutbox' \ parseOutbox :
                p.requestUid = m.requestId /\ m.requestId = activeRequestUid
        /\ m.requestId # activeRequestUid =>
                /\ navigationRequestQueue' = WithoutRequest(navigationRequestQueue, m.requestId)
                /\ Len(navigationRequestQueue') = Len(navigationRequestQueue) - 1
                /\ UNCHANGED <<activeRequestUid, uidCounter, revisionChecks, primed,
                               runtimeVars, transitions, inbox, browserVars, envVars,
                               anchorVars, uncaught, dupVars>>
C1_Swap ==
    \A t \in transitions' \ transitions :
        /\ t.request.requestUid = activeRequestUid
        /\ \E p \in parseOutbox \ parseOutbox' : p.requestUid = t.request.requestUid
C1_OnlyActiveReplyActs == [][C1_Reply /\ C1_Swap]_vars

\* Request 1 was superseded and discarded at its reply; request 2, the active
\* one, had its parse message sent.
C1_Witness == DiscardedAsStale(1) /\ activeRequestUid = 2 /\ ParseSent(2)

\* C2: the reply of a superseded request A, handled while B is active, removes
\* A from the queue and leaves the active id, B's queue entry with the body and
\* title stored on it, the document, the location and the history as they
\* were; css-ready for B, still active, then starts B's transition with that body.
C2_Reply ==
    \A m \in workerPjax : (m \notin workerPjax' /\ m.requestId # activeRequestUid) =>
        /\ ~(\E i \in 1..Len(navigationRequestQueue') :
                navigationRequestQueue'[i].requestUid = m.requestId)
        /\ activeRequestUid' = activeRequestUid
        /\ \A i \in 1..Len(navigationRequestQueue) :
                navigationRequestQueue[i].requestUid # m.requestId =>
                    \E j \in 1..Len(navigationRequestQueue') :
                        navigationRequestQueue'[j] = navigationRequestQueue[i]
        /\ UNCHANGED <<document, history, hIndex, hardNav, parseOutbox>>
C2_Swap ==
    \A p \in parseOutbox : (p \notin parseOutbox' /\ p.requestUid = activeRequestUid) =>
        \E t \in transitions' \ transitions :
            /\ t.request.requestUid = p.requestUid
            /\ t.request.body = p.body
C2_StaleReplyLeavesActiveRequest == [][C2_Reply /\ C2_Swap]_vars

\* Request 1 was discarded at its reply and the transition of request 2 runs.
C2_Witness == DiscardedAsStale(1) /\ activeRequestUid = 2 /\ Running(2)

\* C3: in a page that no full navigation has left, a request whose reply has
\* been handled, and whose css-ready is not awaited, is not in the queue.
C3_HandledRequestLeavesQueue ==
    hardNav = NoUrl =>
        \A i \in 1..Len(navigationRequestQueue) :
            \/ Pending(navigationRequestQueue[i].requestUid)
            \/ ParseSent(navigationRequestQueue[i].requestUid)

\* C4: a load message at the head of the inbox can always be handled; handling
\* it draws one fresh uid, makes it the active id, appends exactly the request
\* with that uid to the queue, posts one pjax message tagged with it and sets
\* the loading state to page-loading; the active id is null before the first
\* load and the uid of the latest load afterwards.
C4_Navigate ==
    uidCounter' # uidCounter =>
        /\ uidCounter' = uidCounter + 1
        /\ ~Queued(uidCounter') /\ ~Pending(uidCounter') /\ activeRequestUid # uidCounter'
        /\ activeRequestUid' = uidCounter'
        /\ Len(navigationRequestQueue') = Len(navigationRequestQueue) + 1
        /\ SubSeq(navigationRequestQueue', 1, Len(navigationRequestQueue)) = navigationRequestQueue
        /\ navigationRequestQueue'[Len(navigationRequestQueue')].requestUid = uidCounter'
        /\ navigationRequestQueue'[Len(navigationRequestQueue')].url = Head(inbox).url
        /\ workerPjax \subseteq workerPjax'
        /\ workerPjax' \ workerPjax =
                {[requestId |-> uidCounter', url |-> Head(inbox).url, currentUrl |-> LocationHref]}
        /\ domState' = "page-loading"
C4_LoadEnabled == (inbox # <<>> /\ Head(inbox).type = "load") => ENABLED InboxLoad
C4_ActiveIsLatest == activeRequestUid = IF uidCounter = 0 THEN NoUid ELSE uidCounter
C4_LoadMakesActive == [](C4_LoadEnabled /\ C4_ActiveIsLatest) /\ [][C4_Navigate]_vars

\* Load 2 was issued while the transition of request 1 was running.
C4_Witness == activeRequestUid = 2 /\ Running(1) /\ Queued(2) /\ Pending(2)
                /\ domState = "page-loading"

\* C5: css-ready for a queued request removes it from the queue; when the
\* request is not the active one no transition starts, nothing is broadcast
\* and the loading state is not ended.
C5_CssReady ==
    \A p \in parseOutbox : p \notin parseOutbox' =>
        /\ Queued(p.requestUid)
        /\ navigationRequestQueue' = WithoutRequest(navigationRequestQueue, p.requestUid)
        /\ Len(navigationRequestQueue') = Len(navigationRequestQueue) - 1
        /\ p.requestUid # activeRequestUid =>
                UNCHANGED <<transitions, inbox, mounts, envVars, browserVars>>
        /\ p.requestUid = activeRequestUid => Cardinality(transitions') = Cardinality(transitions) + 1
C5_InactiveSwapDropped == [][C5_CssReady]_vars

\* css-ready for request 1 came after load 2: request 1 left the queue, no
\* transition ran and page-loading was not ended.
C5_Witness ==
    /\ 1 \in cssSeen /\ ~Queued(1) /\ activeRequestUid = 2
    /\ transitions = {} /\ mounts = <<>> /\ timers = 0 /\ domState = "page-loading"
    /\ \A i \in 1..Len(inbox) : inbox[i].type # "finalize-pjax"

\* C6: a css-ready message that arrives again, for a request no longer in the
\* queue, changes nothing and raises no error.
C6_RepeatedCssReadyDropped ==
    [][dupCount' # dupCount =>
        UNCHANGED <<coordVars, workerVars, runtimeVars, transitions, inbox, browserVars,
                    envVars, anchorVars, logVars, cssSeen>>]_vars

NumOfType(q, type) == Cardinality({i \in 1..Len(q) : q[i].type = type})
\* The urls a load can carry.
LoadUrls == {AnchorOf[a].href : a \in {b \in Anchors : HasHref(b)}} \cup {StartUrl}

\* C7: finalize-pjax, mount-components and mount-inline-scripts are broadcast
\* only in the step in which a running transition resolves, finalize-pjax with
\* the title, url and history mode of that transition's request; and once the
\* transition of a request for url u runs, the history entry for u is
\* eventually committed and completed is emitted.
C7_Broadcast ==
    (mounts' # mounts \/ NumOfType(inbox', "finalize-pjax") > NumOfType(inbox, "finalize-pjax")) =>
        \E t \in transitions :
            /\ transitions' = transitions \ {t}
            /\ inbox' = Append(inbox, [Msg("finalize-pjax") EXCEPT
                                        !.url = t.request.url,
                                        !.title = t.request.title,
                                        !.history = t.request.history])
            /\ mounts' = mounts \o <<[type |-> "mount-components", selector |-> <<"", "">>],
                                     [type |-> "mount-inline-scripts", selector |-> t.selector]>>
C7_Committed(u) == history[hIndex].state = u /\ NumOfType(inbox, "completed") > 0
C7_SwapThenFinalize ==
    /\ [][C7_Broadcast]_vars
    /\ \A u \in LoadUrls : (\E t \in transitions : t.request.url = u) ~> C7_Committed(u)

\* The swap of a load of /about was finalized: its entry is the current
\* history entry and completed is on its way.
C7_Witness ==
    /\ C7_Committed(Url("/about", ""))
    /\ document.title = "About" /\ Len(mounts) = 2 /\ transitions = {}

\* The step in which the inbox handles the finalize-pjax message at its head.
FinalizeHandled ==
    /\ inbox # <<>>
    /\ Head(inbox).type = "finalize-pjax"
    /\ inbox' = Append(Tail(inbox), Msg("completed"))
\* Request u leaves the queue in this step.
Leaves(u) ==
    /\ Queued(u)
    /\ ~(\E i \in 1..Len(navigationRequestQueue') : navigationRequestQueue'[i].requestUid = u)
\* The transition of request u starts in this step.
Starts(u) == \E t \in transitions' \ transitions : t.request.requestUid = u

\* C8 as stated: committing a replace load does not make the history stack
\* longer, and no push load ends (leaves the queue) without the swap that
\* commits its history entry.
C8_ReplaceNeverPushAlwaysGrows ==
    [][/\ (FinalizeHandled /\ Head(inbox).history = "replace") => Len(history') <= Len(history)
       /\ \A i \in 1..Len(navigationRequestQueue) :
            (navigationRequestQueue[i].history = "push"
                /\ Leaves(navigationRequestQueue[i].requestUid))
                => Starts(navigationRequestQueue[i].requestUid)]_vars

\* C8, amended: handling the finalize-pjax of a replace load overwrites the
\* current history entry and leaves the length of the stack unchanged; handling
\* that of a push load puts exactly one entry after the current one; finalize-pjax
\* carries the history mode of the load; and a load that leaves the queue
\* superseded, without a transition, changes no history entry.
C8_Finalize ==
    FinalizeHandled =>
        IF Head(inbox).history = "replace"
        THEN /\ Len(history') = Len(history)
             /\ hIndex' = hIndex
             /\ \A k \in 1..Len(history) : k # hIndex => history'[k] = history[k]
        ELSE /\ hIndex' = hIndex + 1
             /\ Len(history') = hIndex + 1
             /\ \A k \in 1..hIndex : history'[k] = history[k]
C8_CommittedEntry == FinalizeHandled => history'[hIndex'].state = Head(inbox).url
C8_ModeKept ==
    /\ uidCounter' # uidCounter =>
            navigationRequestQueue'[Len(navigationRequestQueue')].history
                = IF Head(inbox).history = Null THEN "push" ELSE Head(inbox).history
    /\ \A t \in transitions' \ transitions :
            t.request.history = Entry(t.request.requestUid).history
    /\ \A t \in transitions \ transitions' :
            inbox'[Len(inbox')].history = t.request.history
C8_Superseded ==
    \A i \in 1..Len(navigationRequestQueue) :
        (Leaves(navigationRequestQueue[i].requestUid)
            /\ ~Starts(navigationRequestQueue[i].requestUid))
            => UNCHANGED <<history, hIndex>>
C8_HistoryGrowsOnlyAtPushFinalize ==
    [][C8_Finalize /\ C8_CommittedEntry /\ C8_ModeKept /\ C8_Superseded]_vars

\* Two clicks were handled to the end: load 1 was superseded and discarded,
\* load 2 pushed its entry, so the stack grew by one entry only.
C8_Witness ==
    /\ uidCounter = 2 /\ DiscardedAsStale(1) /\ ~Queued(2)
    /\ workerPjax = {} /\ parseOutbox = {} /\ transitions = {}
    /\ revisionChecks = 1 /\ Len(history) = 2 /\ hIndex = 2

\* C9: a popstate event whose entry stores a url broadcasts exactly one load
\* for that url with history mode replace and changes nothing else; one whose
\* entry stores none broadcasts nothing and changes no state of the
\* coordinator; the mode replace is kept up to finalize-pjax, whose handling
\* then leaves the length of the history stack unchanged.
\* The step of a popstate event: the current entry changes and neither a
\* reply of the worker nor a finalize-pjax message is handled.
PopstateFired ==
    /\ hIndex' # hIndex
    /\ history' = history
    /\ workerPjax' = workerPjax
    /\ ~FinalizeHandled
C9_Popstate ==
    PopstateFired =>
        /\ IF history[hIndex'].state # NoUrl
           THEN inbox' = Append(inbox, [Msg("load") EXCEPT !.url = history[hIndex'].state,
                                                            !.history = "replace"])
           ELSE inbox' = inbox
        /\ UNCHANGED <<coordVars, workerVars, runtimeVars, transitions, document, hardNav,
                       envVars, anchorVars, logVars>>
C9_ReplaceKept ==
    /\ (uidCounter' # uidCounter /\ Head(inbox).history = "replace") =>
            navigationRequestQueue'[Len(navigationRequestQueue')].history = "replace"
    /\ \A t \in transitions' \ transitions :
            t.request.history = Entry(t.request.requestUid).history
    /\ \A t \in transitions \ transitions' :
            inbox'[Len(inbox')].history = t.request.history
    /\ (FinalizeHandled /\ Head(inbox).history = "replace") =>
            Len(history') = Len(history) /\ hIndex' = hIndex
C9_PopstateLoadsWithReplace == [][C9_Popstate /\ C9_ReplaceKept]_vars

\* The user went back to the entry of the start page, whose load with mode
\* replace is queued, and then forward to the entry that a fragment navigation
\* made, which stores no url: no second load was broadcast.
C9_Witness ==
    /\ history[hIndex].state = NoUrl
    /\ \E i \in 1..Len(navigationRequestQueue) : navigationRequestQueue[i].history = "replace"
    /\ PendingLoads = 0

\* An anchor that hijack-links has to intercept.
Eligible(a) ==
    /\ AnchorOf[a].href # NoUrl
    /\ ~AnchorOf[a].noPjaxAttr /\ ~AnchorOf[a].noPjaxClass /\ ~AnchorOf[a].target
\* The step in which the inbox handles a message that runs collectLinks.
CollectLinksHandled ==
    /\ inbox # <<>>
    /\ \/ Head(inbox).type = "hijack-links" /\ inbox' = Tail(inbox)
       \/ FinalizeHandled

\* C10: no anchor ever has more than one click listener, only eligible anchors
\* have one, an anchor is marked tracked exactly when it has one, and after
\* every run of collectLinks every eligible anchor is tracked and has one.
C10_AtMostOne ==
    \A a \in Anchors :
        /\ listeners[a] = 0 \/ (listeners[a] = 1 /\ Eligible(a))
        /\ a \in tracked <=> listeners[a] = 1
C10_AfterCollect ==
    CollectLinksHandled =>
        \A a \in Anchors : Eligible(a) => a \in tracked' /\ listeners'[a] = 1
C10_HijackLinksIdempotent ==
    [](C10_AtMostOne) /\ [][C10_AfterCollect /\ tracked \subseteq tracked']_vars

\* collectLinks has run for hijack-links and again for two finalize-pjax
\* messages.
C10_Witness ==
    /\ revisionChecks = 2
    /\ \A a \in Anchors : listeners[a] = IF Eligible(a) THEN 1 ELSE 0

Uids == 1..MaxLoads
\* The reply of request u is handled in this step, it being the active request
\* and the status being s.
RepliedAs(u, s) == replied[u] = Null /\ replied'[u] = s
\* The url the worker was sent for request u.
UrlOf(u) == (CHOOSE m \in workerPjax : m.requestId = u).url
\* No parse message, transition or css-ready exists for request u.
NeverSwapped(u) == ~ParseSent(u) /\ ~Running(u) /\ u \notin cssSeen

\* C11: handling a hash-change reply for the active request sets the fragment
\* of the location to that of the request's url and changes nothing else: no
\* body or title is stored on the request, no parse message is sent, no
\* transition starts and nothing is broadcast; and no parse message,
\* transition or css-ready ever exists for such a request.
C11_Reply ==
    \A u \in Uids : RepliedAs(u, "hash-change") =>
        /\ u = activeRequestUid
        /\ history'[hIndex'].url = Url(history[hIndex].url.path, UrlOf(u).hash)
        /\ \A k \in 1..hIndex : k < hIndex' => history'[k] = history[k]
        /\ UNCHANGED <<coordVars, parseOutbox, mounts, transitions, inbox, document,
                       hardNav, envVars, anchorVars, consoleErrors, uncaught>>
C11_NoSwap == \A u \in Uids : replied[u] = "hash-change" => NeverSwapped(u)
C11_HashChangeOnlySetsFragment == [](C11_NoSwap) /\ [][C11_Reply]_vars

\* The click on the link to /home#team was answered with hash-change: the
\* location is /home#team and the document is the one of the start page.
C11_Witness ==
    /\ replied[1] = "hash-change"
    /\ LocationHref = Url("/home", "team")
    /\ document = StartDocument

\* C13: handling a reply for the active request whose status is none of ok,
\* external and hash-change logs one error and assigns the request's url to
\* window.location.href; it sends no parse message and starts no transition,
\* and no parse message, transition or css-ready ever exists for the request.
C13_Reply ==
    \A u \in Uids : RepliedAs(u, "error") =>
        /\ u = activeRequestUid
        /\ consoleErrors' = consoleErrors + 1
        /\ hardNav' = UrlOf(u)
        /\ UNCHANGED <<parseOutbox, mounts, transitions, inbox, document, uncaught>>
C13_NoSwap == \A u \in Uids : replied[u] = "error" => NeverSwapped(u)
C13_FailureFallsBack == [](C13_NoSwap) /\ [][C13_Reply]_vars

\* The load of /about failed: the error is logged and the browser was sent
\* to /about.
C13_Witness ==
    /\ replied[1] = "error"
    /\ hardNav = Url("/about", "")
    /\ consoleErrors = 1
    /\ NeverSwapped(1)

\* C12: handling an ok reply for the active request raises no error and does
\* one of two things: it sends one parse message tagged with the request's
\* uid and stores that message's body and the incoming title on the request,
\* or, the view being found in only one of the documents or in neither, it
\* logs one error, assigns the request's url to window.location.href and
\* sends no parse message.
C12_Parsed(u) ==
    /\ \E p \in parseOutbox' :
            /\ parseOutbox' = parseOutbox \cup {p}
            /\ p \notin parseOutbox
            /\ p.requestUid = u
            /\ \E i \in 1..Len(navigationRequestQueue') :
                    /\ navigationRequestQueue'[i].requestUid = u
                    /\ navigationRequestQueue'[i].body = p.body
                    /\ navigationRequestQueue'[i].title # Null
    /\ UNCHANGED <<hardNav, consoleErrors>>
C12_FellBack(u) ==
    /\ consoleErrors' = consoleErrors + 1
    /\ hardNav' = UrlOf(u)
    /\ UNCHANGED <<parseOutbox, navigationRequestQueue>>
C12_OkReplyParsesOrFallsBack ==
    [][\A u \in Uids : RepliedAs(u, "ok") =>
            /\ uncaught' = uncaught
            /\ C12_Parsed(u) \/ C12_FellBack(u)]_vars

\* C14: once the reply of a request was handled as that of the active
\* request, whatever its status, the browser is eventually sent to a url or
\* the loading state eventually is another than page-loading.
C14_Settled == hardNav # NoUrl \/ domState # "page-loading"
C14_NeverStuck ==
    \A u \in Uids : (replied[u] \notin {Null, "stale"}) ~> C14_Settled

\* The step in which the inbox handles a message that runs prefetchLinks.
PrefetchLinksHandled ==
    /\ ~disablePrefetching
    /\ inbox # <<>>
    /\ \/ Head(inbox).type = "prefetch" /\ inbox' = Tail(inbox)
       \/ FinalizeHandled
\* An anchor the prefetch selectors can match, and one that is in the header
\* or in a nav.
Prefetchable(a) == AnchorOf[a].href # NoUrl /\ ~AnchorOf[a].target
InHeaderOrNav(a) == AnchorOf[a].place # {}
\* The anchors of the set whose url is posted to the worker in this step.
Primed(S) == \A a \in Anchors : primed'[a] = primed[a] + IF a \in S THEN 1 ELSE 0

\* C15: a run of prefetchLinks on 2g or slow-2g, or with data saver on, posts
\* no url, marks no anchor and observes none; on 3g it posts the urls of the
\* header and nav links not yet marked and observes no anchor; on 4g it posts
\* the same urls and puts the remaining unmarked links under observation.
C15_Prefetch ==
    PrefetchLinksHandled =>
        IF connection \in {"2g", "slow-2g"} \/ dataSaver
        THEN UNCHANGED <<primed, prefetched, observed>>
        ELSE /\ Primed({a \in Anchors : Prefetchable(a) /\ InHeaderOrNav(a)
                                            /\ a \notin prefetched})
             /\ IF connection = "3g"
                THEN observed' = observed
                ELSE /\ connection = "4g"
                     /\ observed' = observed \cup
                            {a \in Anchors : Prefetchable(a) /\ ~InHeaderOrNav(a)
                                              /\ a \notin prefetched}
C16_Once == \A a \in Anchors : primed[a] <= 1
C16_Marked == observed \subseteq prefetched
C16_Step ==
    /\ prefetched \subseteq prefetched'
    /\ \A a \in observed' \ observed : a \notin prefetched
    /\ \A a \in Anchors : primed'[a] # primed[a] =>
            \/ a \notin prefetched /\ a \in prefetched' /\ a \notin observed'
            \/ a \in observed /\ a \notin observed'
C16_PrimedAtMostOnce == [](C16_Once /\ C16_Marked) /\ [][C16_Step]_vars

\* After the prefetch of the start page and two finalize-pjax messages the
\* header link and the body link, once it scrolled into view, were each
\* posted once.
C16_Witness ==
    /\ revisionChecks = 2
    /\ primed[1] = 1 /\ primed[5] = 1 /\ primed[3] = 1
    /\ 3 \in prefetched /\ 3 \notin observed

\* C17: whenever the worker answers a revision check with stale, one
\* page-refresh message with the url of the check and env.connection is posted
\* to the service worker and no error is raised, whether or not a service
\* worker was registered; an answer of fresh posts nothing.
C17_Stale(r) ==
    HandleWorkerRevision(r, "stale") =>
        /\ swOutbox' = Append(swOutbox, [type |-> "page-refresh", url |-> r.url,
                                         network |-> connection])
        /\ uncaught' = uncaught
C17_Fresh(r) ==
    HandleWorkerRevision(r, "fresh") => UNCHANGED <<swOutbox, uncaught>>
C17_StaleSendsPageRefresh ==
    [][\A r \in revisionPending : C17_Stale(r) /\ C17_Fresh(r)]_vars

\* The messages posted to the service worker in this step.
Posted == SubSeq(swOutbox', Len(swOutbox) + 1, Len(swOutbox'))
\* The step posts n clear-content-cache messages and nothing else.
PostsClears(n) ==
    /\ SubSeq(swOutbox', 1, Len(swOutbox)) = swOutbox
    /\ Len(Posted) = n
    /\ \A i \in 1..Len(Posted) : Posted[i].type = "clear-content-cache"
\* The service worker's message handler runs in this step.
ServiceWorkerMessageHandled == swHandled' # swHandled

C18_PageRefresh ==
    HandlePageRefresh => prompts' = prompts + 1 /\ UNCHANGED <<swOutbox, maxPrompts>>
C18_Cachebust ==
    \A max \in 1..MaxPrompts, d \in 0..MaxDays : HandleCachebust(max, d) =>
        /\ maxPrompts' = max
        /\ IF prompts >= max
           THEN /\ prompts' = 0
                /\ Len(Posted) >= 1 /\ Posted[1].type = "clear-content-cache"
           ELSE /\ prompts' = prompts
                /\ Len(Posted) <= 1
C18_Reset ==
    (prompts' # prompts /\ prompts' # prompts + 1) =>
        /\ prompts' = 0
        /\ prompts >= maxPrompts' /\ maxPrompts' # NoMax
        /\ Len(Posted) >= 1 /\ Posted[1].type = "clear-content-cache"
C19_PurgeIfWindowExceeded ==
    [][\A max \in 1..MaxPrompts, d \in 0..MaxDays : HandleCachebust(max, d) =>
        IF now - contentCache > d * 24 * 60 * 60 * 1000
        THEN contentCache' = now /\ PostsClears(1 + IF prompts >= max THEN 1 ELSE 0)
        ELSE contentCache' = contentCache /\ PostsClears(IF prompts >= max THEN 1 ELSE 0)]_vars

\* C19, amended: the purge happens if and only if the time since the timestamp
\* is d days or more: a cache that is exactly d days old is purged, and an
\* expiry of 0 days purges at every cachebust message.
C19_PurgeIfWindowReached ==
    [][\A max \in 1..MaxPrompts, d \in 0..MaxDays : HandleCachebust(max, d) =>
        IF now - contentCache >= d * 24 * 60 * 60 * 1000
        THEN contentCache' = now /\ PostsClears(1 + IF prompts >= max THEN 1 ELSE 0)
        ELSE contentCache' = contentCache /\ PostsClears(IF prompts >= max THEN 1 ELSE 0)]_vars

\* A day after the last purge one cachebust message, which left the counter
\* as it was, purged the cache and recorded the time.
C19_Witness ==
    /\ swHandled = 1 /\ prompts = 1 /\ maxPrompts = 2
    /\ NumOfType(swOutbox, "clear-content-cache") = 1
    /\ contentCache = now /\ now = 24 * 60 * 60 * 1000

\* The history entry that stores the url.
EntryOf(u) == [url |-> u, state |-> u]

\* C20: handling one finalize-pjax message commits exactly one history entry
\* that stores the message's url, replacing the current entry for mode replace
\* and put after it otherwise; every eligible anchor then has its click
\* listener; one revision check for the committed url is posted; anchors are
\* prefetched only if prefetching is not disabled, and then the header and nav
\* links are marked; and exactly one message,
\* completed, is broadcast, behind the messages already waiting.
C20_History ==
    IF Head(inbox).history = "replace"
    THEN /\ history' = [history EXCEPT ![hIndex] = EntryOf(Head(inbox).url)]
         /\ hIndex' = hIndex
    ELSE /\ history' = Append(SubSeq(history, 1, hIndex), EntryOf(Head(inbox).url))
         /\ hIndex' = hIndex + 1
C20_Links == \A a \in Anchors : Eligible(a) => a \in tracked' /\ listeners'[a] = 1
C20_Revision ==
    /\ revisionChecks' = revisionChecks + 1
    /\ revisionPending \subseteq revisionPending'
    /\ \E r \in revisionPending' \ revisionPending :
            /\ revisionPending' = revisionPending \cup {r}
            /\ r.url = Head(inbox).url
C20_Prefetching ==
    IF disablePrefetching
    THEN UNCHANGED <<primed, prefetched, observed>>
    ELSE /\ \A a \in Anchors : (Prefetchable(a) /\ InHeaderOrNav(a)) => a \in prefetched'
         /\ prefetched \subseteq prefetched'
C20_Completed ==
    /\ inbox' = Append(Tail(inbox), Msg("completed"))
    /\ NumOfType(inbox', "completed") = NumOfType(inbox, "completed") + 1
C20_Finalize ==
    FinalizeHandled =>
        C20_History /\ C20_Links /\ C20_Revision /\ C20_Prefetching /\ C20_Completed
\* completed is broadcast only by a finalize-pjax message.
C20_OnlyFinalize ==
    NumOfType(inbox', "completed") > NumOfType(inbox, "completed") => FinalizeHandled
C20_FinalizeCommitsThenCompletes == [][C20_Finalize /\ C20_OnlyFinalize]_vars

\* In a build without prefetching one finalize-pjax message of a push load was
\* handled: the entry is committed, the revision check posted, completed is
\* waiting and no anchor was prefetched.
C20_Witness ==
    /\ disablePrefetching
    /\ NumOfType(inbox, "completed") = 1
    /\ revisionChecks = 1 /\ Cardinality(revisionPending) = 1
    /\ Len(history) = 2 /\ hIndex = 2 /\ history[2].state = Url("/about", "")
    /\ prefetched = {}
    /\ \A a \in Anchors : Eligible(a) => a \in tracked

\* The transitions that css-ready starts, and the request of each.
Started == transitions' \ transitions
\* The effects of the transition manager.
Effects == {"slide", "fade", "none"}
SlowConnection == connection = "2g" \/ connection = "slow-2g"

\* C21 as stated: on 2g and slow-2g the effect is none; otherwise it is the
\* requested name, the default standing in for null only, and none for every
\* name that is no effect; and the promise resolves whatever the effect.
C21_Resolves == \A t \in transitions : ENABLED TransitionResolve(t)
C21_NullIsDefault ==
    \A t \in Started :
        LET name == IF t.request.transition = Null
                    THEN defaultTransition
                    ELSE t.request.transition
        IN  t.effect = IF SlowConnection THEN "none"
                       ELSE IF name \in Effects THEN name ELSE "none"
C21_DefaultOnlyForNull == [](C21_Resolves) /\ [][C21_NullIsDefault]_vars

\* C21: on 2g and slow-2g the effect is none; otherwise it is the requested
\* name, the default standing in for null and for the empty name, and none for
\* every name that is no effect; a transition that was started can resolve
\* whatever its effect, and resolving runs the callback of the swap.
C21_EmptyIsDefault ==
    \A t \in Started :
        LET name == IF t.request.transition \in {Null, ""}
                    THEN defaultTransition
                    ELSE t.request.transition
        IN  t.effect = IF SlowConnection THEN "none"
                       ELSE IF name \in Effects THEN name ELSE "none"
C21_Callback ==
    \A t \in transitions \ transitions' :
        /\ document'.title = t.request.title
        /\ inbox' = Append(inbox, FinalizeOf(t))
C21_EffectSelected == [](C21_Resolves) /\ [][C21_EmptyIsDefault /\ C21_Callback]_vars

\* A load that asked for the empty name is running the default effect.
C21_Witness ==
    \E t \in transitions :
        /\ t.request.transition = ""
        /\ t.effect = defaultTransition
        /\ ~SlowConnection

\* The tickets startLoading returned that were not passed to stopLoading.
Outstanding == (1..ticketCounter) \ stopped

\* C22: whatever the order of the startLoading, stopLoading,
\* startPageTransition and endPageTransition calls and of the timer callbacks,
\* the state is idling only when Env holds no ticket and every ticket that
\* startLoading returned has been passed to stopLoading; Env holds exactly the
\* tickets that are outstanding.
C22_TicketsHeld == {tickets[i] : i \in 1..Len(tickets)} = Outstanding
C22_IdlingOnlyWithoutTickets ==
    /\ C22_TicketsHeld
    /\ domState = "idling" => (Len(tickets) = 0 /\ Outstanding = {})

\* Two tickets were returned, both were given back and, with no timer left,
\* the state is idling.
C22_Witness ==
    /\ domState = "idling"
    /\ ticketCounter = 2 /\ stopped = {1, 2}
    /\ timers = 0

\* C23: the then callback of a transition, which sets document.title and
\* broadcasts the finalize-pjax message that commits the history entry, runs
\* for a request only while that request is the active one; and at most one
\* transition is running at any time.
C23_Callback ==
    \A t \in transitions \ transitions' : t.request.requestUid = activeRequestUid
C23_OneTransition == Cardinality(transitions) <= 1
C23_OnlyActiveMutates == [](C23_OneTransition) /\ [][C23_Callback]_vars

\* C24: the selector that swapPjaxContent hands to the transition manager for
\* a request is the selector handlePjaxResponse looked the incoming view of
\* that request up with, for a request with a target as for one without, also
\* when the main element carries a pjax-id; the pjax-id of the main element is
\* the same at the reply and at the swap.
C24_MainId ==
    /\ QuerySelector(document.els, MainSelector) # 0
    /\ document.els[QuerySelector(document.els, MainSelector)].pjaxId
            = StartDocument.els[QuerySelector(StartDocument.els, MainSelector)].pjaxId
C24_Swap == \A t \in Started : t.selector = IncomingSelector(t.request)
C24_SameSelector == [](C24_MainId) /\ [][C24_Swap]_vars

\* C25: with one reply for each pjax message and one css-ready for each parse
\* message, the request a reply names and the request a css-ready message names
\* are in the queue when the message is handled, so that no handler reads a
\* field of null; and no two requests of the queue have the same uid.
C25_Reply ==
    \A m \in workerPjax \ workerPjax' :
        /\ getNavigaitonRequest(m.requestId) # 0
        /\ uncaught' = uncaught
C25_CssReady ==
    \A p \in parseOutbox \ parseOutbox' :
        /\ getNavigaitonRequest(p.requestUid) # 0
        /\ uncaught' = uncaught
C25_Unique ==
    \A i, j \in 1..Len(navigationRequestQueue) :
        navigationRequestQueue[i].requestUid = navigationRequestQueue[j].requestUid => i = j
C25_LookupFindsRequest == [](C25_Unique /\ uncaught = 0) /\ [][C25_Reply /\ C25_CssReady]_vars

\* The reply for request 1 was handled when request 2 had superseded it, and
\* both the reply and the css-ready message of request 2 were handled.
C25_Witness ==
    /\ replied[1] = "stale"
    /\ replied[2] = "ok"
    /\ 2 \in cssSeen
    /\ uncaught = 0

\* C26: while the pjax message of the active request is not yet answered,
\* the state is page-loading.
C26_ActivePending == activeRequestUid # NoUid /\ Pending(activeRequestUid)
C26_StaysPageLoading == C26_ActivePending => domState = "page-loading"

====
